---- MODULE Spec2Model ----
(***************************************************************************)
(* Capacity-constrained vertex colouring (coloring.py).                    *)
(*                                                                         *)
(* coloring() normalises three vertex attributes, builds a 0/1 program     *)
(* with _colouring_lpproblem(), has it solved and writes the colours back. *)
(* The solver is external: it is modelled as exact, returning status 1     *)
(* with ANY optimal solution of the problem as built, or status -1 when    *)
(* the problem as built has no solution.                                   *)
(*                                                                         *)
(* Weights and capacities are fixed-point numbers counted in thirds of     *)
(* 10^-6 (Unit), so that the six-decimal "%f" formatting the builder puts  *)
(* them through is a rounding and not the identity.                        *)
(***************************************************************************)
EXTENDS Integers, Sequences, FiniteSets, TLC

\* Bounds of the model.
MaxV == 3          \* graphs have 1..MaxV vertices
MaxWeight == 2     \* vertex weights are 1..MaxWeight (thirds of 10^-6)
MaxWmax == 2       \* a given wmax is 0..MaxWmax (thirds of 10^-6)
MaxPreset == 1     \* at most MaxPreset vertices carry a colour on input

\* Python's None (an unset colour, an omitted wmax).
None == -1
\* One 10^-6, the resolution of "%f", in the model's weight units.
Unit == 3
\* pulp's LpStatusOptimal, the status coloring() tests for.
LpStatusOptimal == 1
\* pulp's LpStatusInfeasible and LpStatusNotSolved, two of the other statuses.
LpStatusInfeasible == -1
LpStatusNotSolved == 0
\* The default weight 1.0, in the model's weight units.
DefaultWeight == 3000000

VARIABLES
    nv,          \* len(graph.vs)
    es,          \* graph.es: a set of <<source, target>> with source < target
    attrs,       \* the vertex attributes the graph has
    colour,      \* graph.vs[color_lbl]
    relevant,    \* graph.vs[relevant_lbl]
    weight,      \* graph.vs[weights]
    phase,       \* "new" | "returned" | "raised": how the last call ended
    ret,         \* what the last call returned (0 or 1)
    argWmax,     \* the last call's wmax
    argPreserve, \* the last call's preserve
    pre,         \* graph.vs[color_lbl] as the last call found it
    xc,          \* the values of x(c) the last solve left
    calls,       \* the number of calls of coloring() made
    status,      \* p.status of the last call's problem
    big          \* big_number of the last call's problem

vars == <<nv, es, attrs, colour, relevant, weight, phase, ret, argWmax, argPreserve, pre, xc, calls, status, big>>

----------------------------------------------------------------------------
\* Arithmetic helpers.

Colours(n) == 0 .. (n - 1)

RECURSIVE SumTo(_, _)
\* f[0] + ... + f[k-1]
SumTo(f, k) == IF k = 0 THEN 0 ELSE f[k - 1] + SumTo(f, k - 1)

\* sum(range(n))
SumRange(n) == SumTo([c \in Colours(n) |-> c], n)

\* "%f" % x read back as a number: x rounded to six decimals.
FormatF(x) == ((2 * x + Unit) \div (2 * Unit)) * Unit

----------------------------------------------------------------------------
\* Variable names, as pulp's LpVariable.dicts builds them and as coloring()
\* parses them.  A name is a sequence of one-character strings.

Digit(d) == SubSeq(<<"0", "1", "2", "3", "4", "5", "6", "7", "8", "9">>, d + 1, d + 1)

RECURSIVE Str(_)
\* str(k) for a natural number k
Str(k) == IF k < 10 THEN Digit(k) ELSE Str(k \div 10) \o Digit(k % 10)

DigitValue(ch) == CHOOSE d \in 0 .. 9 : Digit(d) = <<ch>>

RECURSIVE ToInt(_)
\* int(s) for a non-empty sequence of digits s
ToInt(s) ==
    IF Len(s) = 1 THEN DigitValue(s[1])
    ELSE 10 * ToInt(SubSeq(s, 1, Len(s) - 1)) + DigitValue(s[Len(s)])

\* 'Colour variable x(c)' + '_' + str(c), blanks turned into '_'
ColourVarName(c) ==
    <<"C", "o", "l", "o", "u", "r", "_", "v", "a", "r", "i", "a", "b", "l", "e",
      "_", "x", "(", "c", ")", "_">> \o Str(c)

\* 'Node Colour variable x(i,c)' + '_' + str((i, c)), blanks turned into '_'
NodeVarName(i, c) ==
    <<"N", "o", "d", "e", "_", "C", "o", "l", "o", "u", "r", "_", "v", "a", "r",
      "i", "a", "b", "l", "e", "_", "x", "(", "i", ",", "c", ")", "_", "(">>
        \o Str(i) \o <<",", "_">> \o Str(c) \o <<")">>

\* s.find(a + b): the 0-based position of the first a, b in s, or -1
Find(s, a, b) ==
    LET hits == {k \in 1 .. (Len(s) - 1) : s[k] = a /\ s[k + 1] = b}
    IN  IF hits = {} THEN -1
        ELSE (CHOOSE k \in hits : \A j \in hits : k <= j) - 1

\* s[from:-1] with from a 0-based position
SliceToLast(s, from) == SubSeq(s, from + 1, Len(s) - 1)

RECURSIVE Split(_, _, _)
\* s.split(a + b)
Split(s, a, b) ==
    LET k == Find(s, a, b)
    IN  IF k = -1 THEN <<s>>
        ELSE <<SubSeq(s, 1, k)>> \o Split(SubSeq(s, k + 3, Len(s)), a, b)

\* var.name[:4] == "Node"
IsNodeVar(name) == SubSeq(name, 1, 4) = <<"N", "o", "d", "e">>

\* The pair [int(si) for si in s] that lines 56-59 read out of a name.
ParseName(name) ==
    LET parts == Split(SliceToLast(name, Find(name, "_", "(") + 2), ",", "_")
    IN  [k \in 1 .. Len(parts) |-> ToInt(parts[k])]

----------------------------------------------------------------------------
\* _colouring_lpproblem: the 0/1 program.  A problem is a record
\*   n     the number of candidate colours, len(graph.vs)
\*   R     relevants
\*   big   big_number
\*   edges graph.es
\*   w     the coefficient of x(i,c) in the capacity row of c, for i in R
\*   cap   the right-hand side of the capacity rows
\*   fixed the pairs <<i, k>> with an " x(i,k) == 1 " row
\* and an assignment is a record [xc |-> ..., xic |-> ...] of 0/1 values,
\* xc[c] for every colour and xic[i][c] for every relevant vertex and colour.

Relevants(n, rel) == {i \in Colours(n) : rel[i]}

\* A mutant of BigNumber: the factor 2 forgotten.
BigNumberNotDoubled(R, n) == Cardinality(R) * SumRange(n)

BigNumber(R, n) == Cardinality(R) * SumRange(n) * 2

\* A mutant of FixedPairs: " if v[color_lbl] " for " is not None ", which
\* takes colour 0 for no colour.
FixedPairsTruthy(n, R, col) ==
    {<<i, col[i]>> : i \in {j \in R : col[j] # None /\ col[j] # 0}}

\* The rows of line 142; a colour that is no candidate has no variable and
\* the lookup raises KeyError.
FixedPairs(n, R, col) == {<<i, col[i]>> : i \in {j \in R : col[j] # None}}

RaisesKeyError(n, R, col) == \E p \in FixedPairs(n, R, col) : p[2] \notin Colours(n)

LpProblem(n, edges, rel, wgt, col, wmax) ==
    LET R == Relevants(n, rel)
    IN  [n     |-> n,
         R     |-> R,
         big   |-> BigNumber(R, n),
         edges |-> edges,
         w     |-> [i \in R |-> FormatF(wgt[i])],
         cap   |-> FormatF(wmax),
         fixed |-> FixedPairs(n, R, col)]

RECURSIVE Dot(_, _, _)
\* coef[0] * x[0] + ... + coef[k-1] * x[k-1]
Dot(coef, x, k) == IF k = 0 THEN 0 ELSE coef[k - 1] * x[k - 1] + Dot(coef, x, k - 1)

\* A mutant of Objective: the terms of lines 106-108 left out.
ObjectiveCountOnly(p, a) ==
    Dot([c \in Colours(p.n) |-> FormatF(p.big * Unit)], a.xc, p.n)

\* The objective of lines 102-109, in Units: " + %f * xc[%d]" with big_number
\* for every colour, " + %f * xic[(%d,%d)]" with c for every relevant vertex
\* and colour.  "%f" of an integer is exact.
Objective(p, a) ==
    Dot([c \in Colours(p.n) |-> FormatF(p.big * Unit)], a.xc, p.n)
    + SumTo([i \in Colours(p.n) |->
               IF i \in p.R
               THEN Dot([c \in Colours(p.n) |-> FormatF(c * Unit)], a.xic[i], p.n)
               ELSE 0], p.n)

\* Lines 113-118, for one vertex: its row of x(i,c).
OneColour(n, row) == SumTo(row, n) = 1

\* A mutant of Adjacency: the row written for the first colour only.
AdjacencyFirstColour(p, a) ==
    \A e \in p.edges :
        (e[1] \in p.R /\ e[2] \in p.R) => a.xic[e[1]][0] + a.xic[e[2]][0] <= 1

\* Lines 121-124.
Adjacency(p, a) ==
    \A e \in p.edges :
        (e[1] \in p.R /\ e[2] \in p.R) =>
            \A c \in Colours(p.n) : a.xic[e[1]][c] + a.xic[e[2]][c] <= 1

\* Lines 127-132.
Capacity(p, a) ==
    \A c \in Colours(p.n) :
        SumTo([i \in Colours(p.n) |-> IF i \in p.R THEN p.w[i] * a.xic[i][c] ELSE 0], p.n)
            <= p.cap

\* A mutant of Linking: " <= 0 " for " >= 0 ".
LinkingReversed(p, a) ==
    \A i \in p.R : \A c \in Colours(p.n) : a.xc[c] - a.xic[i][c] <= 0

\* Lines 135-137.
Linking(p, a) == \A i \in p.R : \A c \in Colours(p.n) : a.xc[c] - a.xic[i][c] >= 0

\* A mutant of Persistence: the rows of line 142 left out.
PersistenceDropped(p, a) == TRUE

\* Lines 140-142.
Persistence(p, a) == \A f \in p.fixed : a.xic[f[1]][f[2]] = 1

\* The 0/1 values of the variables that satisfy every row.  The rows of
\* lines 113-118 constrain each vertex's x(i,.) on its own, and x(c) occurs
\* in the rows of lines 135-137 only.
Feasible(p) ==
    LET Rows == {row \in [Colours(p.n) -> {0, 1}] : OneColour(p.n, row)}
        Xic  == {y \in [p.R -> Rows] :
                    LET a == [xic |-> y]
                    IN  Adjacency(p, a) /\ Capacity(p, a) /\ Persistence(p, a)}
    IN  UNION {{a \in [xc : [Colours(p.n) -> {0, 1}], xic : {y}] : Linking(p, a)} :
                 y \in Xic}

\* p.solve(): the status, and the assignments the solver may leave in the
\* variables on status 1.
Status(feasible) == IF feasible = {} THEN LpStatusInfeasible ELSE LpStatusOptimal

Optimal(p, feasible) ==
    LET values == {Objective(p, a) : a \in feasible}
        best   == CHOOSE v \in values : \A u \in values : v <= u
    IN  {a \in feasible : Objective(p, a) = best}

----------------------------------------------------------------------------
\* coloring()

AttrNames == {"colour", "relevant", "weight"}

\* Lines 28-41: an attribute the graph lacks is created with its default.
WithDefault(has, value, n, default) ==
    IF has THEN value ELSE [v \in Colours(n) |-> default]

\* Lines 43-44.
EffectiveWmax(wmax, n, wgt) ==
    IF wmax = None \/ wmax = 0 THEN SumTo(wgt, n) ELSE wmax

\* Two mutants of BeforeSolving: the colours never cleared, and always cleared.
BeforeSolvingKeeps(preserve, n, col) == col

BeforeSolvingClears(preserve, n, col) == [v \in Colours(n) |-> None]

\* Lines 46-47.
BeforeSolving(preserve, n, col) ==
    IF preserve THEN col ELSE [v \in Colours(n) |-> None]

\* var.varValue > epsilon, with epsilon = 0.5
AboveEpsilon(value) == 2 * value > 1

\* What lines 55-59 make of the name of each x(i,c) and x(c): whether it
\* starts with "Node", and for x(i,c) the pair parsed out of it.
NodeVarRead ==
    [q \in Colours(MaxV) \X Colours(MaxV) |->
        [node |-> IsNodeVar(NodeVarName(q[1], q[2])),
         pair |-> ParseName(NodeVarName(q[1], q[2]))]]

ColourVarIsNode == [c \in Colours(MaxV) |-> IsNodeVar(ColourVarName(c))]

\* Lines 54-60: every variable of the problem whose value is above epsilon
\* and whose name starts with "Node" writes the colour its name parses to.
\* The variables come sorted by name, so of two writes to one vertex the one
\* with the larger colour is the later.
WriteBack(col, p, a) ==
    LET fromXc  == {ParseName(ColourVarName(c)) :
                      c \in {d \in Colours(p.n) :
                               AboveEpsilon(a.xc[d]) /\ ColourVarIsNode[d]}}
        fromXic == {NodeVarRead[q].pair :
                      q \in {r \in p.R \X Colours(p.n) :
                               AboveEpsilon(a.xic[r[1]][r[2]]) /\ NodeVarRead[r].node}}
        writes  == fromXc \cup fromXic
    IN  [v \in DOMAIN col |->
            LET mine == {w[2] : w \in {x \in writes : x[1] = v}}
            IN  IF mine = {} THEN col[v]
                ELSE CHOOSE c \in mine : \A d \in mine : d <= c]

\* eval(" <= %f") at line 132 when no vertex is relevant (SyntaxError), or
\* xic[(i, k)] at line 142 for a colour k that is no candidate (KeyError).
BuilderRaises(n, rel, col) ==
    \/ Relevants(n, rel) = {}
    \/ RaisesKeyError(n, Relevants(n, rel), col)

\* The ways a call of coloring() can end, each a record of what it leaves:
\* the attributes after lines 28-47, whether it raised or returned and what,
\* the colours, the solver's status and x(c), and big_number.
Outcomes(n, edges, has, col, rel, wgt, wmax, preserve) ==
    LET col0 == WithDefault("colour" \in has, col, n, None)
        rel0 == WithDefault("relevant" \in has, rel, n, TRUE)
        wgt0 == WithDefault("weight" \in has, wgt, n, DefaultWeight)
        wm   == EffectiveWmax(wmax, n, wgt0)
        col1 == BeforeSolving(preserve, n, col0)
        p    == LpProblem(n, edges, rel0, wgt0, col1, wm)
        sols == Feasible(p)
        end  == [found |-> col0, relevant |-> rel0, weight |-> wgt0, big |-> p.big]
    IN  IF BuilderRaises(n, rel0, col1)
        THEN {[end |-> end, phase |-> "raised", ret |-> None, colour |-> col1,
               status |-> LpStatusNotSolved, xc |-> <<>>]}
        ELSE IF Status(sols) # LpStatusOptimal
        THEN {[end |-> end, phase |-> "returned", ret |-> 0, colour |-> col1,
               status |-> Status(sols), xc |-> <<>>]}
        ELSE {[end |-> end, phase |-> "returned", ret |-> 1,
               colour |-> WriteBack(col1, p, a),
               status |-> Status(sols), xc |-> a.xc] : a \in Optimal(p, sols)}

Coloring(wmax, preserve) ==
    \E o \in Outcomes(nv, es, attrs, colour, relevant, weight, wmax, preserve) :
        /\ attrs' = AttrNames
        /\ relevant' = o.end.relevant
        /\ weight' = o.end.weight
        /\ pre' = o.end.found
        /\ big' = o.end.big
        /\ argWmax' = wmax
        /\ argPreserve' = preserve
        /\ calls' = calls + 1
        /\ phase' = o.phase
        /\ colour' = o.colour
        /\ status' = o.status
        /\ ret' = IF o.phase = "raised" THEN ret ELSE o.ret
        /\ xc' = IF o.ret = 1 THEN o.xc ELSE xc
        /\ UNCHANGED <<nv, es>>

----------------------------------------------------------------------------
\* The graphs the caller hands in, and the calls it makes.

Graphs(n) == SUBSET {e \in Colours(n) \X Colours(n) : e[1] < e[2]}

\* Colourings of n vertices with at most MaxPreset vertices coloured; a colour
\* is any of the candidates 0..n-1, or n, which is none of them.
Colourings(n) ==
    {col \in [Colours(n) -> {None} \cup (0 .. n)] :
        Cardinality({v \in Colours(n) : col[v] # None}) <= MaxPreset}

WmaxArgs == {None} \cup (0 .. MaxWmax)

Init ==
    /\ nv \in 1 .. MaxV
    /\ es \in Graphs(nv)
    /\ attrs \in SUBSET AttrNames
    /\ colour \in IF "colour" \in attrs
                  THEN Colourings(nv)
                  ELSE {[v \in Colours(nv) |-> None]}
    /\ relevant \in IF "relevant" \in attrs
                    THEN [Colours(nv) -> BOOLEAN]
                    ELSE {[v \in Colours(nv) |-> TRUE]}
    /\ weight \in IF "weight" \in attrs
                  THEN [Colours(nv) -> 1 .. MaxWeight]
                  ELSE {[v \in Colours(nv) |-> DefaultWeight]}
    /\ phase = "new"
    /\ ret = 0
    /\ argWmax = None
    /\ argPreserve = FALSE
    /\ pre = colour
    /\ calls = 0
    /\ status = LpStatusNotSolved
    /\ big = 0
    /\ xc = [c \in Colours(nv) |-> 0]

\* A call of coloring() on the graph as the caller built it.
Call == \E wmax \in WmaxArgs, preserve \in BOOLEAN : calls = 0 /\ Coloring(wmax, preserve)

\* The re-run of section 8: coloring() again on the output of a call that
\* returned 1, preserving the colours, with the same wmax.
Rerun == calls = 1 /\ phase = "returned" /\ ret = 1 /\ Coloring(argWmax, TRUE)

Next == Call \/ Rerun

Spec == Init /\ [][Next]_vars

----------------------------------------------------------------------------
\* What the claims speak of, read off the state a call leaves.

\* The last call returned 1 (Optimal).
ReturnedOptimal == phase = "returned" /\ ret = 1

\* The relevant vertices; a call leaves the attribute in place.
R == Relevants(nv, relevant)

\* The colours the relevant vertices carry.
UsedColours == {colour[v] : v \in R}

\* The total weight of the relevant vertices that carry colour c.
Load(col, c) ==
    SumTo([v \in Colours(nv) |-> IF v \in R /\ col[v] = c THEN weight[v] ELSE 0], nv)

\* The capacity bound the call's problem was built for.
CapacityBound == EffectiveWmax(argWmax, nv, weight)

\* The assignments of candidate colours to the relevant vertices that meet
\* the adjacency, capacity and (under preserve) preservation constraints.
ValidAssignments ==
    {f \in [R -> Colours(nv)] :
        /\ \A e \in es : (e[1] \in R /\ e[2] \in R) => f[e[1]] # f[e[2]]
        /\ \A c \in Colours(nv) :
             Load([v \in Colours(nv) |-> IF v \in R THEN f[v] ELSE None], c) <= CapacityBound
        /\ argPreserve => \A v \in R : pre[v] # None => f[v] = pre[v]}

ColourCount(f) == Cardinality({f[v] : v \in DOMAIN f})

\* C1: whenever coloring() returns 1, every relevant vertex carries one of the
\* colours 0..|V|-1 and no edge joins two relevant vertices of the same colour.
C1_ProperColouring ==
    ReturnedOptimal =>
        /\ \A v \in R : colour[v] \in Colours(nv)
        /\ \A e \in es : (e[1] \in R /\ e[2] \in R) => colour[e[1]] # colour[e[2]]

C1_Witness ==
    /\ ReturnedOptimal
    /\ nv = 3
    /\ \E e \in es : e[1] \in R /\ e[2] \in R /\ colour[e[1]] # colour[e[2]]
    /\ \E v \in Colours(nv) : v \notin R

\* C2 (as claimed): whenever coloring() returns 1 on a call that passed a
\* capacity bound >= 0, 0 included, the weights of the relevant vertices of
\* each colour sum to at most the bound passed.
C2_CapacityOfCaller ==
    (ReturnedOptimal /\ argWmax # None) =>
        \A c \in Colours(nv) : Load(colour, c) <= argWmax

\* C3 (as claimed): whenever coloring() returns 1, the relevant vertices carry
\* as many distinct colours as the fewest that any assignment meeting the
\* exactly-one-colour, adjacency, capacity and preservation constraints uses.
C3_FewestColours ==
    ReturnedOptimal =>
        /\ ValidAssignments # {}
        /\ \A f \in ValidAssignments : Cardinality(UsedColours) <= ColourCount(f)
        /\ \E f \in ValidAssignments : Cardinality(UsedColours) = ColourCount(f)

\* C4 (as claimed): after every call that returns, whatever preserve and the
\* status, every non-relevant vertex has the colour it had before the call.
C4_IrrelevantUntouched ==
    phase = "returned" => \A v \in Colours(nv) \ R : colour[v] = pre[v]

\* C4 (amended): after every call that returns, a non-relevant vertex has the
\* colour it had before the call if preserve is true and no colour if
\* preserve is false; it is never given a colour.
C4_IrrelevantKeptOrCleared ==
    phase = "returned" =>
        \A v \in Colours(nv) \ R : colour[v] = IF argPreserve THEN pre[v] ELSE None

C4_Witness ==
    /\ phase = "returned"
    /\ ~argPreserve
    /\ \E v \in Colours(nv) \ R : pre[v] # None /\ colour[v] = None

\* C5: when the solver's status is not Optimal, coloring() returns 0 and every
\* vertex has the colour it had just before solving: none if preserve is
\* false, the caller's if preserve is true.
C5_NoSolutionLeavesColours ==
    (status # LpStatusNotSolved /\ status # LpStatusOptimal) =>
        /\ phase = "returned"
        /\ ret = 0
        /\ colour = IF argPreserve THEN pre ELSE [v \in Colours(nv) |-> None]

C5_Witness ==
    /\ phase = "returned"
    /\ status = LpStatusInfeasible
    /\ argPreserve
    /\ \E v \in Colours(nv) : colour[v] # None

\* C6: when coloring() is called with preserve true and returns 1, every
\* relevant vertex that had a colour k in 0..|V|-1 before the call has it still.
C6_PresetKept ==
    (ReturnedOptimal /\ argPreserve) =>
        \A v \in R : pre[v] \in Colours(nv) => colour[v] = pre[v]

C6_Witness ==
    /\ ReturnedOptimal
    /\ argPreserve
    /\ calls = 1
    /\ \E v \in R : pre[v] \in Colours(nv) /\ pre[v] > 0 /\ colour[v] = pre[v]

\* C7: coloring() again, with preserve true and the same wmax, on the graph a
\* call that returned 1 left, returns 1 and changes no vertex's colour.
C7_Idempotent ==
    calls = 2 => (ReturnedOptimal /\ colour = pre)

C7_Witness ==
    /\ calls = 2
    /\ ReturnedOptimal
    /\ Cardinality(UsedColours) >= 2
    /\ colour = pre

\* The largest value the secondary sum of c * x(i,c) can take: every relevant
\* vertex on the last candidate colour.
MaxSecondary == Cardinality(R) * (nv - 1)

\* C8 (as claimed): the coefficient of every x(c) in the objective is greater
\* than |R| * |V| * 2, and so greater than the largest secondary sum.
C8_BigAboveTwiceRV ==
    calls > 0 =>
        /\ big > Cardinality(R) * nv * 2
        /\ big > MaxSecondary

\* C8 (amended): the coefficient of every x(c) in the objective is
\* |R| * |V| * (|V| - 1); it is at least the largest secondary sum, and greater
\* when some vertex is relevant and |V| >= 2.
C8_BigIsRVVminus1 ==
    calls > 0 =>
        /\ big = Cardinality(R) * nv * (nv - 1)
        /\ big >= MaxSecondary
        /\ (R # {} /\ nv >= 2) => big > MaxSecondary

C8_Witness ==
    /\ calls > 0
    /\ nv = 3
    /\ Cardinality(R) = 2
    /\ big = 12

C10_ContiguousPrefix ==
    (ReturnedOptimal /\ ~argPreserve /\ R # {}) =>
        \E k \in 1 .. nv : UsedColours = Colours(k)

C10_Witness ==
    /\ ReturnedOptimal
    /\ ~argPreserve
    /\ UsedColours = Colours(2)
    /\ nv = 3

====
